---------------------------- MODULE Spec2Model ----------------------------
(***************************************************************************)
(* A model of eyecite/models.py: the Reporter / Edition reference model,   *)
(* the CaseCitation disambiguation operations (guess_edition, guess_court),*)
(* Edition.includes_year, the lazily compiled TokenExtractor and the       *)
(* as_regex() reconstruction of every citation variant.                    *)
(*                                                                         *)
(* Representation.  Optional[T] is a sequence of length at most one:       *)
(* None is <<>> and a present value v is <<v>>.  A Python str is a         *)
(* sequence of chunks (words, punctuation marks, blanks): the empty str is *)
(* <<>>, concatenation is \o, and "x in s" is a chunk of s being x.        *)
(***************************************************************************)
EXTENDS Integers, Sequences, FiniteSets, TLC

VARIABLES
    now,      \* datetime.now().year, read by includes_year
    cit,      \* the CaseCitation object under disambiguation
    cit0,     \* the arguments its constructor was called with
    pre,      \* the citation as it was before the last call
    op,       \* the last call made
    iy,       \* an includes_year call: edition, year, returned value
    ext,      \* the TokenExtractor object
    xlog,     \* what the extractor has done so far
    rc        \* an extracted citation and the as_regex() call made on it

vars == <<now, cit, cit0, pre, op, iy, ext, xlog, rc>>

----------------------------------------------------------------------------
(* Bounds of the model *)

\* the total number of candidate editions (exact and variation) of a citation
MaxEditions == 2

\* how many times the calendar year may roll over during a run
MaxTicks == 1

\* how many get_matches calls are made on one extractor
MaxCalls == 3

----------------------------------------------------------------------------
(* Optional values and Python truthiness *)

None == <<>>

Some(v) == <<v>>

\* bool(x) for an Optional[int]: None and 0 are falsy
TruthyInt(o) == o # None /\ o[1] # 0

\* bool(x) for an Optional[str]: None and "" are falsy
TruthyStr(o) == o # None /\ o[1] # <<>>

\* "%s" % x for an Optional[str]: None prints as the four letters None
Str(o) == IF o = None THEN <<"None">> ELSE o[1]

\* the calendar years the clock shows
NowYears == {2026}

----------------------------------------------------------------------------
(* Reporter and Edition *)

\* str.lower(), chunk by chunk
LowerChunk(c) ==
    CASE c = "Supreme" -> "supreme"
      [] c = "SUPREME" -> "supreme"
      [] c = "Scotus"  -> "scotus"
      [] c = "SCOTUS"  -> "scotus"
      [] c = "Federal" -> "federal"
      [] c = "United"  -> "united"
      [] c = "States"  -> "states"
      [] c = "Court"   -> "court"
      [] c = "Reports" -> "reports"
      [] c = "Reporter" -> "reporter"
      [] OTHER -> c

Lower(s) == [i \in 1..Len(s) |-> LowerChunk(s[i])]

\* x in s
Contains(s, x) == \E i \in 1..Len(s) : s[i] = x

\* Reporter(short_name, name, cite_type, is_scotus) with its __post_init__
Reporter(short_name, name, cite_type, is_scotus) ==
    [short_name |-> short_name,
     name       |-> name,
     cite_type  |-> cite_type,
     is_scotus  |-> IF \/ (cite_type = <<"federal">> /\ Contains(Lower(name), "supreme"))
                       \/ Contains(Lower(cite_type), "scotus")
                    THEN TRUE
                    ELSE is_scotus]

\* a datetime value; only its year is read
Date(y) == [year |-> y, month |-> 1, day |-> 1]

Edition(reporter, short_name, start, end) ==
    [reporter |-> reporter, short_name |-> short_name, start |-> start, end |-> end]

\* the reporters database the citations are matched against
RepUS   == Reporter(<<"U.S.">>, <<"United", " ", "States", " ", "Supreme", " ", "Court", " ", "Reports">>,
                    <<"federal">>, FALSE)

RepDall == Reporter(<<"Dall.">>, <<"Dallas'", " ", "Reports">>, <<"scotus", "_", "early">>, FALSE)

RepF    == Reporter(<<"F.">>, <<"Federal", " ", "Reporter">>, <<"federal">>, FALSE)

EdUS   == Edition(RepUS, <<"U.S.">>, Some(Date(1790)), None)

EdDall == Edition(RepDall, <<"Dall.">>, None, Some(Date(1800)))

EdF2   == Edition(RepF, <<"F.2d">>, Some(Date(1924)), Some(Date(1993)))

EdF3   == Edition(RepF, <<"F.3d">>, Some(Date(1993)), None)

Editions == {EdUS, EdDall, EdF2, EdF3}

\* includes_year with the end of the edition excluded
includes_year_end_exclusive(self, year) ==
    /\ year <= now
    /\ (self.start = None \/ self.start[1].year <= year)
    /\ (self.end = None \/ self.end[1].year > year)

\* Edition.includes_year
includes_year(self, year) ==
    /\ year <= now
    /\ (self.start = None \/ self.start[1].year <= year)
    /\ (self.end = None \/ self.end[1].year >= year)


----------------------------------------------------------------------------
(* CaseCitation *)

\* all sequences over S of length n
SeqsOfLen(S, n) == [1..n -> S]

\* the pairs of candidate lists with at most MaxEditions editions in all
EditionLists ==
    UNION {SeqsOfLen(Editions, a) \X SeqsOfLen(Editions, b) :
             <<a, b>> \in {p \in (0..MaxEditions) \X (0..MaxEditions) : p[1] + p[2] <= MaxEditions}}

\* what extraction read from the text, per variant: a full citation
\* "515 U.S. 200" and a short one "Adarand, 515 U.S., at 241"
Extracted ==
    { [kind |-> "full", token |-> <<"515", " ", "U.S.", " ", "200">>, index |-> 3,
       reporter |-> <<"U.S.">>, volume |-> Some(<<"515">>), page |-> Some(<<"200">>),
       reporter_found |-> Some(<<"U.S.">>), antecedent_guess |-> None],
      [kind |-> "short", token |-> <<"515", " ", "U.S.", ",", " ", "at", " ", "241">>, index |-> 7,
       reporter |-> <<"U.S.">>, volume |-> Some(<<"515">>), page |-> Some(<<"241">>),
       reporter_found |-> Some(<<"U.S.">>), antecedent_guess |-> Some(<<"Adarand", ",">>)] }

Courts == {None, Some(<<>>), Some(<<"ca9">>)}

Years == {None, Some(0), Some(1795), Some(1950), Some(1993), Some(2050)}

\* the edition_guess / canonical_reporter a caller may pass to the constructor
Presets == {<<None, None>>, <<Some(EdF3), Some(<<"F.">>)>>}

\* the all_editions a caller may pass to the constructor
PassedAll == {<<>>, <<EdUS>>}

\* the keyword arguments of a CaseCitation constructor call
CtorArgs ==
    { [kind |-> x.kind, token |-> x.token, index |-> x.index, reporter |-> x.reporter,
       page |-> x.page, volume |-> x.volume, canonical_reporter |-> ps[2],
       court |-> c, year |-> y, reporter_found |-> x.reporter_found,
       exact_editions |-> el[1], variation_editions |-> el[2], all_editions |-> pa,
       edition_guess |-> ps[1], antecedent_guess |-> x.antecedent_guess] :
      x \in Extracted, c \in Courts, y \in Years, ps \in Presets,
      el \in EditionLists, pa \in PassedAll }

\* a constructor that keeps the all_editions it was passed
post_init_keeps_passed(self) ==
    [self EXCEPT !.all_editions = IF self.all_editions # <<>> THEN self.all_editions
                                  ELSE self.exact_editions \o self.variation_editions]

\* CaseCitation.__post_init__
post_init(self) ==
    [self EXCEPT !.all_editions = self.exact_editions \o self.variation_editions]

\* guess_edition committing the first candidate of the list before narrowing
guess_edition_unfiltered(self) ==
    LET editions == IF self.exact_editions # <<>> THEN self.exact_editions
                    ELSE self.variation_editions
    IN  IF editions = <<>> THEN self
        ELSE LET narrowed == IF Len(editions) > 1 /\ TruthyInt(self.year)
                             THEN SelectSeq(editions, LAMBDA e : includes_year(e, self.year[1]))
                             ELSE editions
             IN  IF Len(narrowed) = 1
                 THEN [self EXCEPT !.edition_guess = Some(editions[1]),
                                   !.canonical_reporter = Some(editions[1].reporter.short_name),
                                   !.reporter = editions[1].short_name]
                 ELSE self

\* guess_edition consulting the variations before the exact editions
guess_edition_variations_first(self) ==
    LET editions == IF self.variation_editions # <<>> THEN self.variation_editions
                    ELSE self.exact_editions
    IN  IF editions = <<>> THEN self
        ELSE LET narrowed == IF Len(editions) > 1 /\ TruthyInt(self.year)
                             THEN SelectSeq(editions, LAMBDA e : includes_year(e, self.year[1]))
                             ELSE editions
             IN  IF Len(narrowed) = 1
                 THEN [self EXCEPT !.edition_guess = Some(narrowed[1]),
                                   !.canonical_reporter = Some(narrowed[1].reporter.short_name),
                                   !.reporter = narrowed[1].short_name]
                 ELSE self

\* CaseCitation.guess_edition
guess_edition(self) ==
    LET editions == IF self.exact_editions # <<>> THEN self.exact_editions
                    ELSE self.variation_editions
    IN  IF editions = <<>> THEN self
        ELSE LET narrowed == IF Len(editions) > 1 /\ TruthyInt(self.year)
                             THEN SelectSeq(editions, LAMBDA e : includes_year(e, self.year[1]))
                             ELSE editions
             IN  IF Len(narrowed) = 1
                 THEN [self EXCEPT !.edition_guess = Some(narrowed[1]),
                                   !.canonical_reporter = Some(narrowed[1].reporter.short_name),
                                   !.reporter = narrowed[1].short_name]
                 ELSE self

\* guess_court without the test that court is unset
guess_court_overwrites(self) ==
    IF \E i \in 1..Len(self.all_editions) : self.all_editions[i].reporter.is_scotus
    THEN [self EXCEPT !.court = Some(<<"scotus">>)]
    ELSE self

\* guess_court reading the resolved edition_guess instead of all_editions
guess_court_from_guess(self) ==
    IF /\ ~TruthyStr(self.court)
       /\ self.edition_guess # None
       /\ self.edition_guess[1].reporter.is_scotus
    THEN [self EXCEPT !.court = Some(<<"scotus">>)]
    ELSE self

\* CaseCitation.guess_court
guess_court(self) ==
    IF /\ ~TruthyStr(self.court)
       /\ \E i \in 1..Len(self.all_editions) : self.all_editions[i].reporter.is_scotus
    THEN [self EXCEPT !.court = Some(<<"scotus">>)]
    ELSE self

----------------------------------------------------------------------------
(* Regular expressions, as as_regex() builds them.  A pattern is a sequence *)
(* of atoms: an escaped chunk (re.escape), a chunk interpolated unescaped,  *)
(* a chunk of literal scaffolding, or one of the groups \s+, \s?, ,? and    *)
(* the filler group of whitespace, HTML tags and commas.                    *)

Atom(a, c) == [a |-> a, c |-> c]

\* re.escape(s): every chunk of s is matched literally
escape(s) == [i \in 1..Len(s) |-> Atom("esc", s[i])]

\* "%s" % s inside a pattern: the chunks of s are regex syntax
raw(s) == [i \in 1..Len(s) |-> Atom("raw", s[i])]

\* literal text of the template
lit(c) == <<Atom("lit", c)>>

WsPlus == <<Atom("ws+", "")>>

WsOpt == <<Atom("ws?", "")>>

CommaOpt == <<Atom(",?", "")>>

\* whitespace_regex of IdCitation.as_regex
whitespace_regex == <<Atom("fill", "")>>

\* sep.join(parts)
RECURSIVE join(_, _)
join(sep, parts) ==
    IF parts = <<>> THEN <<>>
    ELSE IF Len(parts) = 1 THEN parts[1]
    ELSE parts[1] \o sep \o join(sep, Tail(parts))

\* what a call returns: a value, or the exception it raises
Returned(v) == [err |-> "", value |-> v]

Raised(e) == [err |-> e, value |-> None]

\* FullCaseCitation.as_regex built from reporter, which guess_edition overwrites
full_as_regex_from_reporter(self) ==
    IF self.reporter_found = None \/ self.page = None THEN Raised("TypeError")
    ELSE Returned(Some(raw(Str(self.volume)) \o WsPlus \o escape(self.reporter)
                       \o WsPlus \o escape(self.page[1]) \o WsOpt))

\* FullCaseCitation.as_regex
full_as_regex(self) ==
    IF self.reporter_found = None \/ self.page = None THEN Raised("TypeError")
    ELSE Returned(Some(raw(Str(self.volume)) \o WsPlus \o escape(self.reporter_found[1])
                       \o WsPlus \o escape(self.page[1]) \o WsOpt))

\* ShortCaseCitation.as_regex
short_as_regex(self) ==
    IF self.antecedent_guess = None \/ self.reporter_found = None \/ self.page = None
    THEN Raised("TypeError")
    ELSE Returned(Some(escape(self.antecedent_guess[1]) \o WsPlus \o raw(Str(self.volume))
                       \o WsPlus \o escape(self.reporter_found[1]) \o CommaOpt \o WsPlus
                       \o lit("at") \o WsPlus \o escape(self.page[1]) \o WsOpt))

\* SupraCitation.as_regex
supra_as_regex(self) ==
    IF self.antecedent_guess = None THEN Raised("TypeError")
    ELSE LET regex == IF TruthyStr(self.volume)
                      THEN escape(self.antecedent_guess[1]) \o WsPlus \o raw(self.volume[1])
                           \o WsPlus \o lit("supra")
                      ELSE escape(self.antecedent_guess[1]) \o WsPlus \o lit("supra")
             suffix == IF TruthyStr(self.page)
                       THEN lit(",") \o WsPlus \o lit("at") \o WsPlus \o escape(self.page[1])
                       ELSE <<>>
         IN  Returned(Some(regex \o suffix \o WsOpt))

\* IdCitation.as_regex
id_as_regex(self) ==
    IF self.after_tokens = None THEN Raised("TypeError")
    ELSE Returned(Some(whitespace_regex \o escape(self.token) \o whitespace_regex
                       \o join(whitespace_regex,
                               [i \in 1..Len(self.after_tokens[1]) |-> escape(self.after_tokens[1][i])])
                       \o WsOpt))

\* citation.as_regex(), dispatched on the class of the citation
as_regex(self) ==
    CASE self.kind = "full"  -> full_as_regex(self)
      [] self.kind = "short" -> short_as_regex(self)
      [] self.kind = "supra" -> supra_as_regex(self)
      [] self.kind = "id"    -> id_as_regex(self)
      [] self.kind = "case"  -> Returned(None)
      [] OTHER               -> Raised("AttributeError")

----------------------------------------------------------------------------
(* values of the variables a specification does not use *)

NoCit == [kind |-> "none"]

NoCall == [edition |-> EdUS, year |-> 0, result |-> FALSE, done |-> FALSE]

NoExt == [regex |-> "none"]

NoLog == <<>>

NoRc == [kind |-> "none"]

----------------------------------------------------------------------------
(* Specification of disambiguation: a citation is constructed, then         *)
(* guess_edition and guess_court are called on it in any order, any number  *)
(* of times.                                                                *)

Init ==
    /\ now \in NowYears
    /\ cit0 \in CtorArgs
    /\ cit = post_init(cit0)
    /\ pre = cit
    /\ op = "construct"
    /\ iy = NoCall
    /\ ext = NoExt
    /\ xlog = NoLog
    /\ rc = NoRc

GuessEdition ==
    /\ cit' = guess_edition(cit)
    /\ pre' = cit
    /\ op' = "guess_edition"
    /\ UNCHANGED <<now, cit0, iy, ext, xlog, rc>>

GuessCourt ==
    /\ cit' = guess_court(cit)
    /\ pre' = cit
    /\ op' = "guess_court"
    /\ UNCHANGED <<now, cit0, iy, ext, xlog, rc>>

Next == GuessEdition \/ GuessCourt

Spec == Init /\ [][Next]_vars

----------------------------------------------------------------------------
(* Specification of includes_year: the function is applied to an edition    *)
(* and a year while the calendar moves on.                                  *)

\* the editions includes_year is applied to: every combination of bounds
YearEditions ==
    {Edition(RepF, <<"F.">>, st, en) :
        st \in {None, Some(Date(1790)), Some(Date(1924)), Some(Date(2027))},
        en \in {None, Some(Date(1800)), Some(Date(1993))}}

\* the years it is asked about
YearInputs == {-1, 0, 1789, 1790, 1800, 1801, 1924, 1993, 1994, 2026, 2027, 2028}

InitYear ==
    /\ now \in NowYears
    /\ iy \in {[edition |-> e, year |-> y, result |-> FALSE, done |-> FALSE] :
                  e \in YearEditions, y \in YearInputs}
    /\ cit0 = NoCit
    /\ cit = NoCit
    /\ pre = NoCit
    /\ op = "none"
    /\ ext = NoExt
    /\ xlog = NoLog
    /\ rc = NoRc

\* a call e.includes_year(y)
IncludesYearCall ==
    /\ iy' = [iy EXCEPT !.result = includes_year(iy.edition, iy.year), !.done = TRUE]
    /\ UNCHANGED <<now, cit, cit0, pre, op, ext, xlog, rc>>

\* the calendar year rolls over; the value returned before is no longer current
NewYear ==
    /\ \A y \in NowYears : now < y + MaxTicks
    /\ now' = now + 1
    /\ iy' = [iy EXCEPT !.result = FALSE, !.done = FALSE]
    /\ UNCHANGED <<cit, cit0, pre, op, ext, xlog, rc>>

NextYear == IncludesYearCall \/ NewYear

SpecYear == InitYear /\ [][NextYear]_vars

\* C5: includes_year(y) is true if and only if y is not later than the current
\* year, start is absent or start.year <= y, and end is absent or end.year >= y.
C5_IncludesYearIffWithinBounds ==
    iy.done =>
        (iy.result <=> /\ ~(iy.year > now)
                       /\ (iy.edition.start = None \/ iy.edition.start[1].year <= iy.year)
                       /\ (iy.edition.end = None \/ iy.edition.end[1].year >= iy.year))

\* includes_year returned true for the last year of an edition
C5_Witness ==
    /\ iy.done
    /\ iy.result
    /\ iy.edition.start # None
    /\ iy.edition.end # None
    /\ iy.edition.end[1].year = iy.year

----------------------------------------------------------------------------
(* TokenExtractor.  A pattern string is a sequence of chunks; it compiles   *)
(* when its parentheses balance.  The _compiled_regex attribute is absent   *)
(* (None) until compiled_regex has compiled the pattern.                    *)

\* the nesting depth after each chunk never drops below 0 and ends at 0
RECURSIVE Balanced(_, _)
Balanced(s, depth) ==
    IF s = <<>> THEN depth = 0
    ELSE IF Head(s) = "(" THEN Balanced(Tail(s), depth + 1)
    ELSE IF Head(s) = ")" THEN depth > 0 /\ Balanced(Tail(s), depth - 1)
    ELSE Balanced(Tail(s), depth)

\* re.compile(regex, flags=flags): the compiled pattern, or re.error
re_compile(regex, flags) ==
    IF Balanced(regex, 0) THEN Returned(Some([pattern |-> regex, flags |-> flags]))
    ELSE Raised("re.error")

\* TokenExtractor(regex, constructor, flags=flags): the generated __init__
\* stores its arguments and compiles nothing
TokenExtractor(regex, flags) ==
    [regex |-> regex, flags |-> flags, compiled |-> None]

\* the result of a property or method that may also change the object
Outcome(obj, r, compile_called) ==
    [obj |-> obj, err |-> r.err, value |-> r.value, compile_called |-> compile_called]

\* compiled_regex compiling at every access
compiled_regex_recompiles(self) ==
    LET r == re_compile(self.regex, self.flags)
    IN  IF r.err = "" THEN Outcome([self EXCEPT !.compiled = r.value], r, TRUE)
        ELSE Outcome(self, r, TRUE)

\* compiled_regex caching a pattern that matches nothing when compiling fails
compiled_regex_swallows_error(self) ==
    IF self.compiled = None
    THEN LET r == re_compile(self.regex, self.flags)
             c == IF r.err = "" THEN r.value ELSE Some([pattern |-> <<>>, flags |-> self.flags])
         IN  Outcome([self EXCEPT !.compiled = c], Returned(c), TRUE)
    ELSE Outcome(self, Returned(self.compiled), FALSE)

\* TokenExtractor.compiled_regex
compiled_regex(self) ==
    IF self.compiled = None
    THEN LET r == re_compile(self.regex, self.flags)
         IN  IF r.err = "" THEN Outcome([self EXCEPT !.compiled = r.value], r, TRUE)
             ELSE Outcome(self, r, TRUE)
    ELSE Outcome(self, Returned(self.compiled), FALSE)

\* TokenExtractor.get_matches: the iterator of the compiled pattern over text
get_matches(self, text) ==
    LET c == compiled_regex(self)
    IN  IF c.err # "" THEN c
        ELSE Outcome(c.obj, Returned(Some([by |-> c.value[1], text |-> text])), c.compile_called)

\* the patterns of the extractor table, two of them malformed
Patterns ==
    { <<"(", "id", "\\.", "|", "ibid", "\\.", ")">>,
      <<"(", "supra", ")">>,
      <<"(", "id", "\\.">>,
      <<"supra", ")">> }

\* re flags: none, re.IGNORECASE
Flags == {0, 2}

\* document texts
Texts == { <<"Adarand", ",", " ", "supra", ",", " ", "at", " ", "240">>,
           <<"\"", " ", "id.", ",", " ", "at", " ", "240">> }

\* the number of get_matches calls made so far
Calls == Len(xlog) - 1

InitExtractor ==
    /\ now \in NowYears
    /\ ext = NoExt
    /\ xlog = NoLog
    /\ cit0 = NoCit
    /\ cit = NoCit
    /\ pre = NoCit
    /\ op = "none"
    /\ iy = NoCall
    /\ rc = NoRc

\* the extractor table is constructed
Construct ==
    /\ ext = NoExt
    /\ \E regex \in Patterns, flags \in Flags :
          ext' = TokenExtractor(regex, flags)
    /\ xlog' = <<[call |-> "construct", text |-> <<>>, err |-> "", value |-> None,
                  compile_called |-> FALSE]>>
    /\ UNCHANGED <<now, cit, cit0, pre, op, iy, rc>>

\* a call extractor.get_matches(text)
GetMatches ==
    /\ ext # NoExt
    /\ Calls < MaxCalls
    /\ \E text \in Texts :
          LET r == get_matches(ext, text)
          IN  /\ ext' = r.obj
              /\ xlog' = Append(xlog, [call |-> "get_matches", text |-> text, err |-> r.err,
                                       value |-> r.value, compile_called |-> r.compile_called])
    /\ UNCHANGED <<now, cit, cit0, pre, op, iy, rc>>

NextExtractor == Construct \/ GetMatches

SpecExtractor == InitExtractor /\ [][NextExtractor]_vars

\* the pattern of the extractor is malformed
Malformed == ext # NoExt /\ re_compile(ext.regex, ext.flags).err # ""

\* C6, as stated: an extractor whose pattern fails to compile is never
\* constructed successfully: the failure is reported by the constructor.
C6_MalformedNeverConstructed ==
    ext # NoExt => re_compile(ext.regex, ext.flags).err = ""

\* C6, amended: an extractor whose pattern fails to compile is constructed
\* without an error; the failure is reported by its first get_matches call and
\* by every later one, so it never holds a compiled pattern and never returns
\* matches for any text.
C6_MalformedFailsAtEveryUse ==
    Malformed =>
        /\ xlog[1].call = "construct" /\ xlog[1].err = ""
        /\ ext.compiled = None
        /\ \A i \in 2..Len(xlog) : xlog[i].err = "re.error" /\ xlog[i].value = None

\* a malformed extractor was constructed and its get_matches has been called
C6_Witness ==
    /\ Malformed
    /\ Len(xlog) >= 3
    /\ xlog[2].call = "get_matches"

\* C7: over any sequence of get_matches calls the pattern is compiled at most
\* once, by the first call, and never again; every call that returns matches
\* applies the one compiled pattern, which has the pattern string and the flags
\* of the extractor.
C7_CompiledOnceAndCached ==
    ext # NoExt =>
        /\ Cardinality({i \in 2..Len(xlog) : xlog[i].compile_called /\ xlog[i].err = ""}) <= 1
        /\ \A i \in 2..Len(xlog) :
              xlog[i].err = "" =>
                 /\ xlog[i].compile_called <=> i = 2
                 /\ xlog[i].value # None
                 /\ xlog[i].value[1].by = [pattern |-> ext.regex, flags |-> ext.flags]
                 /\ xlog[i].value[1].text = xlog[i].text
                 /\ ext.compiled = Some(xlog[i].value[1].by)

\* a later get_matches call returned matches from the cached pattern
C7_Witness ==
    /\ ext # NoExt
    /\ Len(xlog) >= 4
    /\ xlog[4].err = ""
    /\ ~xlog[4].compile_called
    /\ xlog[4].text # xlog[2].text

----------------------------------------------------------------------------
(* Applying a pattern to a text (re.finditer), chunk by chunk *)

\* \s
IsWs(c) == c \in {" ", "\n", "\t"}

\* \s, an HTML tag or a comma: what the filler group of IdCitation consumes
IsFill(c) == IsWs(c) \/ c = "," \/ c \in {"<i>", "</i>", "<em>", "</em>"}

\* a one-chunk atom against a chunk of text; an unescaped "." matches any chunk
AtomMatches(atom, c) ==
    CASE atom.a = "raw" -> (atom.c = "." \/ atom.c = c)
      [] OTHER          -> atom.c = c

\* the positions where a match of pat[k..] that starts at text[i] may end
RECURSIVE MatchEnds(_, _, _, _)
MatchEnds(pat, k, text, i) ==
    IF k > Len(pat) THEN {i}
    ELSE LET atom == pat[k]
             n == Len(text)
         IN  CASE atom.a \in {"esc", "raw", "lit"} ->
                    IF i <= n /\ AtomMatches(atom, text[i])
                    THEN MatchEnds(pat, k + 1, text, i + 1) ELSE {}
               [] atom.a = "ws+" ->
                    UNION {MatchEnds(pat, k + 1, text, j) :
                             j \in {j \in (i + 1)..(n + 1) : \A m \in i..(j - 1) : IsWs(text[m])}}
               [] atom.a = "ws?" ->
                    MatchEnds(pat, k + 1, text, i) \cup
                    (IF i <= n /\ IsWs(text[i]) THEN MatchEnds(pat, k + 1, text, i + 1) ELSE {})
               [] atom.a = ",?" ->
                    MatchEnds(pat, k + 1, text, i) \cup
                    (IF i <= n /\ text[i] = "," THEN MatchEnds(pat, k + 1, text, i + 1) ELSE {})
               [] atom.a = "fill" ->
                    UNION {MatchEnds(pat, k + 1, text, j) :
                             j \in {j \in i..(n + 1) : \A m \in i..(j - 1) : IsFill(text[m])}}

Max(S) == CHOOSE x \in S : \A y \in S : y <= x

\* re.finditer(pat, text) from position pos on: the spans <<first, last>> of
\* the matches, scanning left to right, every group taking all it can
RECURSIVE finditer(_, _, _)
finditer(pat, text, pos) ==
    LET starts == {i \in pos..(Len(text) + 1) : MatchEnds(pat, 1, text, i) # {}}
    IN  IF starts = {} THEN {}
        ELSE LET first == CHOOSE i \in starts : \A j \in starts : i <= j
                 stop  == Max(MatchEnds(pat, 1, text, first))
             IN  {<<first, stop - 1>>} \cup
                 finditer(pat, text, IF stop > first THEN stop ELSE first + 1)

----------------------------------------------------------------------------
(* Specification of regex reconstruction: a citation of any variant has     *)
(* been extracted from a text; as_regex() is called on it and the pattern   *)
(* is applied to the text.                                                  *)

\* spacing between the words of the text
Spacings == {<<" ">>, <<" ", " ">>, <<"\n">>}

\* reporter strings and pages as found in the text
FoundReporters == {<<"U.S.">>, <<"F.", " ", "2d">>}

FoundPages == {<<"200">>, <<"241">>}

\* a citation record with the fields of every variant
Citation(kind, token, reporter_found, volume, page, antecedent_guess, after_tokens) ==
    [kind |-> kind, token |-> token, index |-> 1, reporter_found |-> reporter_found,
     volume |-> volume, page |-> page, antecedent_guess |-> antecedent_guess,
     after_tokens |-> after_tokens]

\* an extracted citation: the text, the place of its token, the citation
Found(text, first, cite) ==
    [text |-> text, first |-> first, last |-> first + Len(cite.token) - 1, cit |-> cite,
     called |-> FALSE, result |-> Returned(None), searched |-> FALSE, matches |-> {}]

\* "See 515 U.S. 200, (1995)"
FullInputs ==
    {LET token == <<"515">> \o sp \o rep \o sp \o pg
     IN  Found(<<"See">> \o sp \o token \o <<",">> \o sp \o <<"(1995)">>, 2 + Len(sp),
               Citation("full", token, Some(rep), Some(<<"515">>), Some(pg), None, None)) :
     sp \in Spacings, rep \in FoundReporters, pg \in FoundPages}

\* "Adarand, 515 U.S., at 241", with and without an antecedent_guess
ShortInputs ==
    {LET token == <<"515">> \o sp \o rep \o <<",">> \o sp \o <<"at">> \o sp \o pg
     IN  Found(<<"Adarand", ",">> \o sp \o token, 3 + Len(sp),
               Citation("short", token, Some(rep), Some(<<"515">>), Some(pg), ante, None)) :
     sp \in Spacings, rep \in FoundReporters, pg \in FoundPages,
     ante \in {None, Some(<<"Adarand", ",">>)}}

\* "Adarand, supra", "Adarand, 515 supra", "Adarand, supra, at 240"
SupraInputs ==
    {LET head == <<"Adarand", ",">> \o sp \o (IF vol = None THEN <<>> ELSE vol[1] \o sp)
         tail == IF pg = None THEN <<".">> ELSE <<",">> \o sp \o <<"at">> \o sp \o pg[1]
     IN  Found(head \o <<"supra">> \o tail, Len(head) + 1,
               Citation("supra", <<"supra">>, None, vol, pg, Some(<<"Adarand", ",">>), None)) :
     sp \in Spacings, vol \in {None, Some(<<"515">>)}, pg \in {None, Some(<<"240">>)}}

\* "foo bar," id., at 240: the after tokens are the words after the id token
IdInputs ==
    {LET head == <<"foo", " ", "bar", ",", "\"">> \o sp
     IN  Found(head \o tag \o <<"id.">> \o tag \o <<",">> \o sp \o <<"at">> \o sp \o <<"240">>,
               Len(head) + Len(tag) + 1,
               Citation("id", <<"id.">>, None, None, None, None, Some(after))) :
     sp \in Spacings, tag \in {<<>>, <<"<i>">>},
     after \in {<<>>, << <<"at">>, <<"240">> >>}}

\* "18 U.S.C. §922(g)(1)"
NonopinionInputs ==
    {Found(<<"18">> \o sp \o <<"U.S.C.">> \o sp \o <<"§922(g)(1)">>, 3 + 2 * Len(sp),
           Citation("nonopinion", <<"§922(g)(1)">>, None, None, None, None, None)) :
     sp \in Spacings}

RegexInputs == FullInputs \cup ShortInputs \cup SupraInputs \cup IdInputs \cup NonopinionInputs

InitRegex ==
    /\ now \in NowYears
    /\ rc \in RegexInputs
    /\ cit0 = NoCit
    /\ cit = NoCit
    /\ pre = NoCit
    /\ op = "none"
    /\ iy = NoCall
    /\ ext = NoExt
    /\ xlog = NoLog

\* a call citation.as_regex()
AsRegexCall ==
    /\ ~rc.called
    /\ rc' = [rc EXCEPT !.called = TRUE, !.result = as_regex(rc.cit)]
    /\ UNCHANGED <<now, cit, cit0, pre, op, iy, ext, xlog>>

\* the pattern is applied to the text the citation was extracted from
ApplyRegex ==
    /\ rc.called
    /\ ~rc.searched
    /\ rc.result.err = ""
    /\ rc.result.value # None
    /\ rc' = [rc EXCEPT !.searched = TRUE, !.matches = finditer(rc.result.value[1], rc.text, 1)]
    /\ UNCHANGED <<now, cit, cit0, pre, op, iy, ext, xlog>>

NextRegex == AsRegexCall \/ ApplyRegex

SpecRegex == InitRegex /\ [][NextRegex]_vars

\* C8: for every extracted citation of every variant as_regex() yields a
\* pattern, and applying the pattern to the text yields a match whose span
\* covers the text of the citation's token.
C8_RegexRoundTrip ==
    rc.called =>
        /\ rc.result.err = ""
        /\ rc.result.value # None
        /\ rc.searched => \E m \in rc.matches : m[1] <= rc.first /\ rc.last <= m[2]

----------------------------------------------------------------------------
(* Properties of disambiguation (specification Spec) *)

\* the candidates guess_edition starts from
Selected(c) == IF c.exact_editions # <<>> THEN c.exact_editions ELSE c.variation_editions

\* the edition e holds cases of year y
YearWithin(e, y) ==
    /\ ~(y > now)
    /\ (e.start # None => e.start[1].year <= y)
    /\ (e.end # None => e.end[1].year >= y)

IsScotus(e) == e.reporter.is_scotus

Elems(s) == {s[i] : i \in 1..Len(s)}

\* C1, as stated: with a known year, guess_edition leaves edition_guess as it
\* was or commits to exactly one candidate, and the edition it commits to always
\* includes the year, whatever the number of candidates (a single one included).
C1_NeverCommitsOutsideYear ==
    (op = "guess_edition" /\ TruthyInt(pre.year)) =>
        \/ cit.edition_guess = pre.edition_guess
        \/ /\ cit.edition_guess \in {Some(e) : e \in Elems(Selected(pre))}
           /\ YearWithin(cit.edition_guess[1], pre.year[1])

\* C1, amended: with a known (non-zero) year, guess_edition leaves edition_guess
\* as it was or commits to exactly one candidate; when the list it starts from
\* holds more than one candidate, the edition it commits to includes the year;
\* a single candidate is committed whether or not it includes the year.
C1_CommitsWithinYearWhenSeveral ==
    (op = "guess_edition" /\ TruthyInt(pre.year)) =>
        /\ \/ cit.edition_guess = pre.edition_guess
           \/ cit.edition_guess \in {Some(e) : e \in Elems(Selected(pre))}
        /\ (Len(Selected(pre)) > 1 /\ cit.edition_guess # pre.edition_guess)
              => YearWithin(cit.edition_guess[1], pre.year[1])
        /\ Len(Selected(pre)) = 1 => cit.edition_guess = Some(Selected(pre)[1])

\* several candidates, a known year, and guess_edition committed to one of them
C1_Witness ==
    /\ op = "guess_edition"
    /\ TruthyInt(pre.year)
    /\ Len(Selected(pre)) > 1
    /\ pre.edition_guess = None
    /\ cit.edition_guess # None

\* C2: guess_edition starts from exact_editions when non-empty and from
\* variation_editions otherwise, keeps the candidates that include the year when
\* there are several and a year is known, and sets edition_guess,
\* canonical_reporter and reporter exactly when one candidate remains; in every
\* other case the three fields are left as they were.
C2_GuessEditionRule ==
    op = "guess_edition" =>
        LET cands == IF pre.exact_editions # <<>> THEN pre.exact_editions
                     ELSE pre.variation_editions
            kept  == IF Len(cands) > 1 /\ TruthyInt(pre.year)
                     THEN SelectSeq(cands, LAMBDA e : YearWithin(e, pre.year[1]))
                     ELSE cands
        IN  IF Len(kept) = 1
            THEN /\ cit.edition_guess = Some(kept[1])
                 /\ cit.canonical_reporter = Some(kept[1].reporter.short_name)
                 /\ cit.reporter = kept[1].short_name
            ELSE /\ cit.edition_guess = pre.edition_guess
                 /\ cit.canonical_reporter = pre.canonical_reporter
                 /\ cit.reporter = pre.reporter

\* no exact edition, several variations, a known year, and one variation survived
C2_Witness ==
    /\ op = "guess_edition"
    /\ pre.exact_editions = <<>>
    /\ Len(pre.variation_editions) > 1
    /\ TruthyInt(pre.year)
    /\ cit.edition_guess # pre.edition_guess
    /\ cit.reporter # pre.reporter

\* C3: a court that is set is left unchanged by guess_court, and over any
\* sequence of guess_court and guess_edition calls a court once set never changes.
C3_CourtOnceSetIsKept ==
    /\ TruthyStr(pre.court) => cit.court = pre.court
    /\ TruthyStr(cit0.court) => cit.court = cit0.court

\* guess_court ran on a citation with a court and a Supreme Court candidate
C3_Witness ==
    /\ op = "guess_court"
    /\ pre.court = Some(<<"ca9">>)
    /\ \E e \in Elems(pre.all_editions) : IsScotus(e)

\* C4: guess_court sets court to "scotus" exactly when court is unset and some
\* edition of all_editions (exact or variation) belongs to a Supreme Court
\* reporter, and guess_edition followed by guess_court ends in the same citation
\* as guess_court followed by guess_edition.
C4_GuessCourtRule ==
    /\ op = "guess_court" =>
          cit = IF /\ ~TruthyStr(pre.court)
                   /\ \E e \in Elems(pre.exact_editions) \cup Elems(pre.variation_editions) : IsScotus(e)
                THEN [pre EXCEPT !.court = Some(<<"scotus">>)]
                ELSE pre
    /\ guess_court(guess_edition(cit)) = guess_edition(guess_court(cit))

\* court inferred from a variation while the edition stayed unresolved
C4_Witness ==
    /\ op = "guess_court"
    /\ pre.court = None
    /\ cit.court = Some(<<"scotus">>)
    /\ cit.edition_guess = None
    /\ \A e \in Elems(pre.exact_editions) : ~IsScotus(e)
    /\ pre.exact_editions # <<>>

\* C9: whatever was passed for all_editions, in every state all_editions is
\* exact_editions followed by variation_editions, and the three lists are the
\* ones the citation was constructed with.
C9_AllEditionsIsConcatenation ==
    /\ cit.all_editions = cit.exact_editions \o cit.variation_editions
    /\ cit.exact_editions = cit0.exact_editions
    /\ cit.variation_editions = cit0.variation_editions
    /\ cit.all_editions = pre.all_editions

\* a citation constructed with another all_editions, after a call that changed it
C9_Witness ==
    /\ cit0.all_editions # cit0.exact_editions \o cit0.variation_editions
    /\ cit0.exact_editions # <<>>
    /\ cit0.variation_editions # <<>>
    /\ op = "guess_edition"
    /\ cit # pre

\* the fields neither operation may change
FrameFields == {"kind", "token", "index", "volume", "page", "year", "reporter_found",
                "antecedent_guess", "exact_editions", "variation_editions", "all_editions"}

\* C10: guess_edition changes at most reporter, canonical_reporter and
\* edition_guess, guess_court changes at most court, and as_regex() of a full or
\* short citation is the same before and after disambiguation.
C10_OnlyDesignatedFieldsChange ==
    /\ \A f \in FrameFields : cit[f] = pre[f] /\ cit[f] = post_init(cit0)[f]
    /\ op = "guess_edition" => cit.court = pre.court
    /\ op = "guess_court" =>
          /\ cit.reporter = pre.reporter
          /\ cit.canonical_reporter = pre.canonical_reporter
          /\ cit.edition_guess = pre.edition_guess
    /\ as_regex(cit) = as_regex(pre)
    /\ as_regex(cit) = as_regex(cit0)

\* guess_edition overwrote reporter of a full citation whose as_regex() is a pattern
C10_Witness ==
    /\ op = "guess_edition"
    /\ cit.kind = "full"
    /\ cit.reporter # pre.reporter
    /\ Some(cit.reporter) # cit.reporter_found
    /\ as_regex(cit).err = ""
    /\ as_regex(cit).value # None

=============================================================================
